---- MODULE Spec2Model ----
(***************************************************************************)
(* Mini SQL parser: the scanner (tokenizer.rs), the statement parser       *)
(* (parser.rs), the precedence-climbing expression parser (pratt.rs) and   *)
(* the read-tokenize-parse loop body of main.rs, as one state machine.     *)
(*                                                                         *)
(* Characters are one-element strings, texts are sequences of characters.  *)
(* Option<T> is <<>> (None) or <<x>> (Some(x)).  A u64 is its canonical    *)
(* decimal numeral (no leading zeros), so that the 64-bit range is exact.  *)
(***************************************************************************)
EXTENDS Integers, Sequences, FiniteSets, TLC

VARIABLES
    entry,      \* which public operation drives this run
    input,      \* Tokenizer.input
    tpos,       \* Tokenizer.position
    tokens,     \* the tokens returned so far (main.rs: Vec<Token>; the parsers' slice)
    position,   \* SQLParser.position
    pc,         \* the control point of the running operation
    columns,    \* parse_select: columns
    table,      \* parse_select: table (Option)
    selection,  \* parse_select: selection (Option<Expression>)
    order_by,   \* parse_select: order_by (Option<Vec<String>>)
    order_columns, \* parse_select: order_columns of the ORDER BY loop
    ebase,      \* offset of the slice handed to PrattParser::new inside tokens
    epos,       \* PrattParser.position (relative to the slice)
    emin,       \* min_precedence of the running parse_expression call
    eleft,      \* `left` of the running parse_expression call (Option)
    estack,     \* the suspended parse_expression calls (innermost last)
    eret,       \* the value a parse_expression call has just returned (Option)
    outcome,    \* "running", "Ok", "Err" or "Panic"
    err         \* the error returned, "" when none

vars == <<entry, input, tpos, tokens, position, pc, columns, table, selection,
          order_by, order_columns, ebase, epos, emin, eleft, estack, eret, outcome, err>>

None == <<>>
Some(x) == <<x>>

(***************************************************************************)
(* Bounds of the model.                                                    *)
(***************************************************************************)
MaxCalls == 3      \* calls of next_token by a caller of the tokenizer alone
MaxLexemes == 2    \* lexemes concatenated into one scanner input
MaxOps == 2        \* binary operators in an operand-operator chain
MaxExprLen == 3    \* tokens in an arbitrary expression slice
MaxAnyLen == 2     \* tokens in an arbitrary statement slice
MaxTail == 3       \* arbitrary tokens after SELECT .. FROM t
MaxPhrases == 2    \* phrases after SELECT a FROM t in an input line

(***************************************************************************)
(* Tokens (tokenizer.rs: enum Token, enum Keyword).                        *)
(***************************************************************************)
Keyword(kw) == [k |-> "Keyword", v |-> <<kw>>]
Identifier(name) == [k |-> "Identifier", v |-> name]
StringTok(s) == [k |-> "String", v |-> s]
Number(n) == [k |-> "Number", v |-> n]
Invalid(c) == [k |-> "Invalid", v |-> <<c>>]
Sym(kind) == [k |-> kind, v |-> <<>>]
Eof == Sym("Eof")

(***************************************************************************)
(* Character classes of the Rust standard library, on the characters the   *)
(* model draws.  LongS stands for U+017F (LATIN SMALL LETTER LONG S): it   *)
(* is alphabetic and its upper case is "S".                                *)
(***************************************************************************)
LowerLetters == <<"a","b","c","d","e","f","g","h","i","j","k","l","m",
                  "n","o","p","q","r","s","t","u","v","w","x","y","z">>
UpperLetters == <<"A","B","C","D","E","F","G","H","I","J","K","L","M",
                  "N","O","P","Q","R","S","T","U","V","W","X","Y","Z">>
LongS == "U+017F"
Range(s) == {s[i] : i \in 1..Len(s)}

is_whitespace(ch) == ch \in {" ", "\t"}
is_alphabetic(ch) == ch \in Range(LowerLetters) \cup Range(UpperLetters) \cup {LongS}
is_digit(ch) == ch \in {"0","1","2","3","4","5","6","7","8","9"}
is_alphanumeric(ch) == is_alphabetic(ch) \/ is_digit(ch)

char_to_uppercase(ch) ==
    IF ch \in Range(LowerLetters)
    THEN UpperLetters[CHOOSE i \in 1..Len(LowerLetters) : LowerLetters[i] = ch]
    ELSE IF ch = LongS THEN "S" ELSE ch

to_uppercase(word) == [i \in 1..Len(word) |-> char_to_uppercase(word[i])]

(***************************************************************************)
(* Tokenizer (tokenizer.rs).  position is 0-based, as in the source.       *)
(***************************************************************************)
Tokenizer_peek(inp, p) == IF p < Len(inp) THEN Some(inp[p + 1]) ELSE None

RECURSIVE skip_whitespace(_, _)
skip_whitespace(inp, p) ==
    LET ch == Tokenizer_peek(inp, p)
    IN  IF ch # None /\ is_whitespace(ch[1]) THEN skip_whitespace(inp, p + 1) ELSE p

\* The text read and the position after it.
RECURSIVE read_identifier_from(_, _, _)
read_identifier_from(inp, p, result) ==
    LET ch == Tokenizer_peek(inp, p)
    IN  IF ch # None /\ (is_alphanumeric(ch[1]) \/ ch[1] = "_")
        THEN read_identifier_from(inp, p + 1, Append(result, ch[1]))
        ELSE [text |-> result, position |-> p]

read_identifier(inp, p) == read_identifier_from(inp, p, <<>>)

KeywordTable ==
    << <<<<"S","E","L","E","C","T">>, "Select">>,
       <<<<"F","R","O","M">>, "From">>,
       <<<<"W","H","E","R","E">>, "Where">>,
       <<<<"C","R","E","A","T","E">>, "Create">>,
       <<<<"T","A","B","L","E">>, "Table">>,
       <<<<"O","R","D","E","R">>, "Order">>,
       <<<<"B","Y">>, "By">>,
       <<<<"A","N","D">>, "And">>,
       <<<<"O","R">>, "Or">>,
       <<<<"N","O","T">>, "Not">>,
       <<<<"T","R","U","E">>, "True">>,
       <<<<"F","A","L","S","E">>, "False">>,
       <<<<"I","N","T">>, "Int">>,
       <<<<"B","O","O","L">>, "Bool">>,
       <<<<"V","A","R","C","H","A","R">>, "Varchar">>,
       <<<<"P","R","I","M","A","R","Y">>, "Primary">>,
       <<<<"K","E","Y">>, "Key">>,
       <<<<"C","H","E","C","K">>, "Check">>,
       <<<<"N","U","L","L">>, "Null">> >>

\* lookup_keyword without the case folding.
lookup_keyword_case_sensitive(word) ==
    LET hits == {i \in 1..Len(KeywordTable) : KeywordTable[i][1] = word}
    IN  IF hits = {} THEN None ELSE Some(KeywordTable[CHOOSE i \in hits : TRUE][2])

lookup_keyword(word) ==
    LET up == to_uppercase(word)
        hits == {i \in 1..Len(KeywordTable) : KeywordTable[i][1] = up}
    IN  IF hits = {} THEN None ELSE Some(KeywordTable[CHOOSE i \in hits : TRUE][2])

(***************************************************************************)
(* str::parse::<u64>: Ok(value) unless the digits' value exceeds 2^64 - 1. *)
(* The value is kept as its canonical numeral.                             *)
(***************************************************************************)
U64MaxDigits == <<"1","8","4","4","6","7","4","4","0","7",
                  "3","7","0","9","5","5","1","6","1","5">>

DigitValue(d) == CHOOSE n \in 0..9 : <<"0","1","2","3","4","5","6","7","8","9">>[n + 1] = d

RECURSIVE StripZeros(_)
StripZeros(ds) ==
    IF Len(ds) > 1 /\ ds[1] = "0" THEN StripZeros(Tail(ds)) ELSE ds

\* a > b for two canonical numerals of the same length
RECURSIVE NumeralGreater(_, _)
NumeralGreater(a, b) ==
    IF a = <<>> THEN FALSE
    ELSE IF a[1] # b[1] THEN DigitValue(a[1]) > DigitValue(b[1])
    ELSE NumeralGreater(Tail(a), Tail(b))

ExceedsU64(ds) ==
    LET c == StripZeros(ds)
    IN  \/ Len(c) > Len(U64MaxDigits)
        \/ Len(c) = Len(U64MaxDigits) /\ NumeralGreater(c, U64MaxDigits)

parse_u64(ds) ==
    IF ExceedsU64(ds) THEN [ok |-> FALSE, value |-> <<>>]
    ELSE [ok |-> TRUE, value |-> StripZeros(ds)]

RECURSIVE read_digits_from(_, _, _)
read_digits_from(inp, p, num_str) ==
    LET ch == Tokenizer_peek(inp, p)
    IN  IF ch # None /\ is_digit(ch[1])
        THEN read_digits_from(inp, p + 1, Append(num_str, ch[1]))
        ELSE [text |-> num_str, position |-> p]

\* The string-literal loop: until the closing quote, or the end of the input.
RECURSIVE read_string_from(_, _, _, _)
read_string_from(inp, p, quote, result) ==
    LET ch == Tokenizer_peek(inp, p)
    IN  IF ch = None THEN [token |-> Invalid(quote), position |-> p]
        ELSE IF ch[1] = quote THEN [token |-> StringTok(result), position |-> p + 1]
        ELSE read_string_from(inp, p + 1, quote, Append(result, ch[1]))

Returned(tok, p) == [token |-> tok, position |-> p, panicked |-> FALSE]
Panicked(p) == [token |-> Eof, position |-> p, panicked |-> TRUE]

SingleChar ==
    [c \in {",", ";", "(", ")", "+", "-", "*", "/", "="} |->
        CASE c = "," -> "Comma"
          [] c = ";" -> "Semicolon"
          [] c = "(" -> "LeftParentheses"
          [] c = ")" -> "RightParentheses"
          [] c = "+" -> "Plus"
          [] c = "-" -> "Minus"
          [] c = "*" -> "Multiply"
          [] c = "/" -> "Divide"
          [] c = "=" -> "Equal"]

\* Tokenizer::advance adds 1 to position whether or not a character is left.
Tokenizer_advance(p) == p + 1

\* One call of Tokenizer::next_token from position p0.
next_token(inp, p0) ==
    LET s == skip_whitespace(inp, p0)
        first == Tokenizer_peek(inp, s)
        p == Tokenizer_advance(s)
        followedByEq == Tokenizer_peek(inp, p) = Some("=")
    IN  IF first = None THEN Returned(Eof, p)
        ELSE LET ch == first[1] IN
        CASE ch \in DOMAIN SingleChar -> Returned(Sym(SingleChar[ch]), p)
          [] ch = ">" -> IF followedByEq THEN Returned(Sym("GreaterThanOrEqual"), p + 1)
                         ELSE Returned(Sym("GreaterThan"), p)
          [] ch = "<" -> IF followedByEq THEN Returned(Sym("LessThanOrEqual"), p + 1)
                         ELSE Returned(Sym("LessThan"), p)
          [] ch = "!" -> IF followedByEq THEN Returned(Sym("NotEqual"), p + 1)
                         ELSE Returned(Invalid("!"), p)
          [] is_alphabetic(ch) ->
                LET rest == read_identifier(inp, p)
                    ident == <<ch>> \o rest.text
                    keyword == lookup_keyword(ident)
                IN  IF keyword # None THEN Returned(Keyword(keyword[1]), rest.position)
                    ELSE Returned(Identifier(ident), rest.position)
          [] is_digit(ch) ->
                LET rest == read_digits_from(inp, p, <<ch>>)
                    parsed == parse_u64(rest.text)
                IN  IF parsed.ok THEN Returned(Number(parsed.value), rest.position)
                    ELSE Panicked(rest.position)
          [] ch \in {"\"", "'"} ->
                LET r == read_string_from(inp, p, inp[p], <<>>)
                IN  Returned(r.token, r.position)
          [] OTHER -> Returned(Invalid(ch), p)

(***************************************************************************)
(* Expressions (ast.rs: enum Expression) and the statement.                *)
(***************************************************************************)
Leaf(node, v) == [node |-> node, v |-> v]
UnaryOperation(operator, operand) ==
    [node |-> "UnaryOperation", operator |-> operator, operand |-> operand]
BinaryOperation(left_operand, operator, right_operand) ==
    [node |-> "BinaryOperation", left_operand |-> left_operand,
     operator |-> operator, right_operand |-> right_operand]
Grouped(inner) == [node |-> "Grouped", inner |-> inner]

Statement ==
    [columns |-> columns, table |-> table[1], selection |-> selection,
     order_by |-> order_by, limit |-> None]

(***************************************************************************)
(* pratt.rs                                                                *)
(***************************************************************************)
U8Max == 255

get_precedence(token) ==
    CASE token = Keyword("Or") -> 1
      [] token = Keyword("And") -> 2
      [] token.k \in {"Equal", "NotEqual"} -> 3
      [] token.k \in {"GreaterThan", "GreaterThanOrEqual", "LessThan", "LessThanOrEqual"} -> 4
      [] token.k \in {"Plus", "Minus"} -> 5
      [] token.k \in {"Multiply", "Divide"} -> 6
      [] OTHER -> 0

\* The match that turns the operator token into a BinaryOperator (None: the `_` arm).
binary_operator(op) ==
    CASE op.k = "Equal" -> Some("Equals")
      [] op.k = "NotEqual" -> Some("NotEquals")
      [] op.k = "GreaterThan" -> Some("GreaterThan")
      [] op.k = "GreaterThanOrEqual" -> Some("GreaterThanOrEqual")
      [] op.k = "LessThan" -> Some("LessThan")
      [] op.k = "LessThanOrEqual" -> Some("LessThanOrEqual")
      [] op.k = "Plus" -> Some("Add")
      [] op.k = "Minus" -> Some("Subtract")
      [] op.k = "Multiply" -> Some("Multiply")
      [] op.k = "Divide" -> Some("Divide")
      [] op = Keyword("And") -> Some("And")
      [] op = Keyword("Or") -> Some("Or")
      [] OTHER -> None

\* The slice is tokens[ebase..]; PrattParser.position indexes into it.
PrattParser_peek ==
    IF ebase + epos < Len(tokens) THEN Some(tokens[ebase + epos + 1]) ELSE None

\* The precedence the recursive call for a unary operator's operand is given.
UnaryOperandPrecedence == 6

\* A suspended call: what it does with the value its callee returns.
Frame(kont, min, left, op) == [kont |-> kont, min |-> min, left |-> left, op |-> op]

\* An Err(String) leaves every suspended call through `?`; parse_select wraps it.
ExprFail(msg) ==
    /\ pc' = "done"
    /\ outcome' = "Err"
    /\ err' = IF entry = "parse_expression" THEN msg ELSE "InvalidExpression: " \o msg
    /\ estack' = <<>>
    /\ eleft' = None
    /\ eret' = None

\* The prefix match of parse_expression: one advance().
PrattPrefix ==
    /\ pc = "prefix"
    /\ epos' = epos + 1
    /\ UNCHANGED <<entry, input, tpos, tokens, position, columns, table, selection,
                   order_by, order_columns, ebase>>
    /\ LET t == PrattParser_peek
           leaf(e) == /\ eleft' = Some(e)
                      /\ pc' = "loop"
                      /\ UNCHANGED <<emin, estack, eret, outcome, err>>
           call(kont, min) == /\ estack' = Append(estack, Frame(kont, emin, None, Eof))
                              /\ emin' = min
                              /\ pc' = "prefix"
                              /\ UNCHANGED <<eleft, eret, outcome, err>>
       IN  IF t = None
           THEN ExprFail("Unexpected end of input while parsing expression") /\ UNCHANGED emin
           ELSE CASE t[1].k = "Identifier" -> leaf(Leaf("Identifier", t[1].v))
                  [] t[1].k = "Number" -> leaf(Leaf("Number", t[1].v))
                  [] t[1].k = "String" -> leaf(Leaf("String", t[1].v))
                  [] t[1] = Keyword("True") -> leaf(Leaf("Boolean", <<"true">>))
                  [] t[1] = Keyword("False") -> leaf(Leaf("Boolean", <<"false">>))
                  [] t[1] = Keyword("Not") -> call("Not", UnaryOperandPrecedence)
                  [] t[1].k = "Minus" -> call("Negate", UnaryOperandPrecedence)
                  [] t[1].k = "LeftParentheses" -> call("Grouped", 1)
                  [] OTHER -> ExprFail("Unexpected token at start of expression")
                              /\ UNCHANGED emin

\* The loop's test with > for >=.
TakesOperator_strict(tok, min_precedence) == get_precedence(tok) > min_precedence

\* Whether the operator loop takes the peeked token as its operator.
TakesOperator(tok, min_precedence) == get_precedence(tok) >= min_precedence

\* One pass of the operator loop up to the recursive call, or the break.
PrattLoop ==
    /\ pc = "loop"
    /\ UNCHANGED <<entry, input, tpos, tokens, position, columns, table, selection,
                   order_by, order_columns, ebase, outcome, err>>
    /\ LET t == PrattParser_peek
       IN  IF t # None /\ TakesOperator(t[1], emin)
           THEN /\ epos' = epos + 1
                /\ estack' = Append(estack, Frame("Right", emin, eleft, t[1]))
                /\ emin' = get_precedence(t[1]) + 1
                /\ eleft' = None
                /\ pc' = "prefix"
                /\ UNCHANGED eret
           ELSE /\ eret' = eleft
                /\ eleft' = None
                /\ pc' = "return"
                /\ UNCHANGED <<epos, emin, estack>>

\* A call returns Ok(left): to the call that made it, or to the caller of the parser.
PrattReturn ==
    /\ pc = "return"
    /\ UNCHANGED <<entry, input, tpos, tokens, position, columns, table, order_by,
                   order_columns, ebase>>
    /\ IF estack = <<>>
       THEN /\ UNCHANGED <<epos, emin, estack, eleft, err>>
            /\ IF entry = "parse_expression"
               THEN pc' = "done" /\ outcome' = "Ok" /\ UNCHANGED <<selection, eret>>
               ELSE /\ selection' = eret
                    /\ eret' = None
                    /\ pc' = "order"
                    /\ UNCHANGED outcome
       ELSE LET f == estack[Len(estack)]
                resume(e) == /\ eleft' = Some(e)
                             /\ emin' = f.min
                             /\ estack' = SubSeq(estack, 1, Len(estack) - 1)
                             /\ eret' = None
                             /\ pc' = "loop"
                             /\ UNCHANGED <<outcome, err>>
            IN  /\ UNCHANGED selection
                /\ CASE f.kont = "Not" ->
                          resume(UnaryOperation("Not", eret[1])) /\ UNCHANGED epos
                     [] f.kont = "Negate" ->
                          resume(UnaryOperation("Negate", eret[1])) /\ UNCHANGED epos
                     [] f.kont = "Grouped" ->
                          IF PrattParser_peek = Some(Sym("RightParentheses"))
                          THEN resume(Grouped(eret[1])) /\ epos' = epos + 1
                          ELSE ExprFail("Expected token RightParentheses")
                               /\ UNCHANGED <<epos, emin>>
                     [] f.kont = "Right" ->
                          LET operator == binary_operator(f.op)
                          IN  IF operator = None
                              THEN ExprFail("Unknown binary operator")
                                   /\ UNCHANGED <<epos, emin>>
                              ELSE resume(BinaryOperation(f.left[1], operator[1], eret[1]))
                                   /\ UNCHANGED epos

(***************************************************************************)
(* parser.rs                                                               *)
(***************************************************************************)
SQLParser_peek == IF position < Len(tokens) THEN Some(tokens[position + 1]) ELSE None

\* expect_keyword after its advance(): "" for Ok(()), else the ParseError.
expect_keyword(got, keyword) ==
    IF got = None THEN "UnexpectedEnd"
    ELSE IF got[1] = Keyword(keyword) THEN ""
    ELSE "ExpectedKeyword"

\* expect_identifier after its advance().
expect_identifier(got) ==
    IF got = None THEN "UnexpectedEnd"
    ELSE IF got[1].k = "Identifier" THEN ""
    ELSE "ExpectedIdentifier"

PrattVars == <<ebase, epos, emin, eleft, estack, eret>>
ScannerVars == <<entry, input, tpos, tokens>>

\* parse_statement / parse_select return Err(e).
Fail(e) ==
    /\ pc' = "done"
    /\ outcome' = "Err"
    /\ err' = e

\* parse_select returns Ok(Statement::Select {..}).
ReturnStatement ==
    /\ pc' = "done"
    /\ outcome' = "Ok"
    /\ UNCHANGED err

\* parse_statement: the dispatch on peek().
ParseStatement ==
    /\ pc = "parse_statement"
    /\ UNCHANGED <<ScannerVars, PrattVars, position, columns, table, selection, order_by,
                   order_columns>>
    /\ LET t == SQLParser_peek
       IN  IF t = None THEN Fail("General: Empty input")
           ELSE IF t[1] = Keyword("Select")
           THEN pc' = "parse_select" /\ UNCHANGED <<outcome, err>>
           ELSE Fail("UnknownStartOfStatement")

\* parse_select: expect_keyword(Select) and the empty column vector.
ParseSelect ==
    /\ pc = "parse_select"
    /\ position' = position + 1
    /\ columns' = <<>>
    /\ UNCHANGED <<ScannerVars, PrattVars, table, selection, order_by,
                   order_columns>>
    /\ LET e == expect_keyword(SQLParser_peek, "Select")
       IN  IF e = "" THEN pc' = "columns" /\ UNCHANGED <<outcome, err>>
           ELSE Fail(e)

\* What one pass of the column loop does with the token advance() returned.
ColumnLoopArm(t) ==
    IF t = None THEN "end"
    ELSE CASE t[1].k = "Identifier" -> "push"
           [] t[1].k = "Comma" -> "continue"
           [] t[1] = Keyword("From") -> "break"
           [] OTHER -> "unexpected"

\* The column loop with a comma arm that continues without consuming the comma.
ColumnLoop_comma_not_consumed ==
    /\ pc = "columns"
    /\ UNCHANGED <<ScannerVars, PrattVars, table, selection, order_by,
                   order_columns>>
    /\ LET t == SQLParser_peek
           arm == ColumnLoopArm(t)
       IN  /\ position' = IF arm = "continue" THEN position ELSE position + 1
           /\ CASE arm = "push" ->
                     /\ columns' = Append(columns, t[1].v)
                     /\ UNCHANGED <<pc, outcome, err>>
                [] arm = "continue" -> UNCHANGED <<columns, pc, outcome, err>>
                [] arm = "break" -> pc' = "table" /\ UNCHANGED <<columns, outcome, err>>
                [] arm = "unexpected" ->
                     Fail("General: Unexpected token in column list") /\ UNCHANGED columns
                [] arm = "end" ->
                     Fail("General: Unexpected end of input while reading columns.")
                     /\ UNCHANGED columns

\* One pass of the column loop.
ColumnLoop ==
    /\ pc = "columns"
    /\ position' = position + 1
    /\ UNCHANGED <<ScannerVars, PrattVars, table, selection, order_by,
                   order_columns>>
    /\ LET t == SQLParser_peek
           arm == ColumnLoopArm(t)
       IN  CASE arm = "push" ->
                   /\ columns' = Append(columns, t[1].v)
                   /\ UNCHANGED <<pc, outcome, err>>
             [] arm = "continue" -> UNCHANGED <<columns, pc, outcome, err>>
             [] arm = "break" -> pc' = "table" /\ UNCHANGED <<columns, outcome, err>>
             [] arm = "unexpected" ->
                   Fail("General: Unexpected token in column list") /\ UNCHANGED columns
             [] arm = "end" ->
                   Fail("General: Unexpected end of input while reading columns.")
                   /\ UNCHANGED columns

\* let table = self.expect_identifier()?; let mut selection = None;
TableName ==
    /\ pc = "table"
    /\ position' = position + 1
    /\ UNCHANGED <<ScannerVars, PrattVars, columns, order_by, order_columns>>
    /\ selection' = None
    /\ LET t == SQLParser_peek
           e == expect_identifier(t)
       IN  IF e = ""
           THEN table' = Some(t[1].v) /\ pc' = "where" /\ UNCHANGED <<outcome, err>>
           ELSE Fail(e) /\ UNCHANGED table

\* The optional WHERE clause, up to the call of parse_expression(1).
WhereClause ==
    /\ pc = "where"
    /\ UNCHANGED <<ScannerVars, columns, table, selection, order_by,
                   order_columns>>
    /\ IF SQLParser_peek = Some(Keyword("Where"))
       THEN /\ position' = position + 1
            /\ IF position + 1 > Len(tokens)
               THEN \* &self.tokens[self.position..] out of range
                    /\ pc' = "done"
                    /\ outcome' = "Panic"
                    /\ UNCHANGED <<PrattVars, err>>
               ELSE /\ ebase' = position + 1
                    /\ epos' = 0
                    /\ emin' = 1
                    /\ eleft' = None
                    /\ estack' = <<>>
                    /\ eret' = None
                    /\ pc' = "prefix"
                    /\ UNCHANGED <<outcome, err>>
       ELSE pc' = "order" /\ UNCHANGED <<position, PrattVars, outcome, err>>


\* The optional ORDER BY clause up to its loop, or the return of the statement.
OrderByClause ==
    /\ pc = "order"
    /\ UNCHANGED <<ScannerVars, PrattVars, columns, table, selection>>
    /\ IF SQLParser_peek = Some(Keyword("Order"))
       THEN /\ position' = position + 2
            /\ order_columns' = <<>>
            /\ UNCHANGED order_by
            /\ LET by == IF position + 1 < Len(tokens)
                         THEN Some(tokens[position + 2]) ELSE None
                   e == expect_keyword(by, "By")
               IN  IF e = "" THEN pc' = "order_columns" /\ UNCHANGED <<outcome, err>>
                   ELSE Fail(e)
       ELSE /\ order_by' = None
            /\ ReturnStatement
            /\ UNCHANGED <<position, order_columns>>

\* What one pass of the ORDER BY loop does with the token advance() returned.
OrderLoopArm(t) ==
    IF t = None THEN "end"
    ELSE CASE t[1].k = "Identifier" -> "push"
           [] t[1].k = "Comma" -> "continue"
           [] t[1].k \in {"Semicolon", "Eof"} -> "break"
           [] OTHER -> "unexpected"

\* One pass of the ORDER BY loop; its break returns the statement.
OrderByLoop ==
    /\ pc = "order_columns"
    /\ position' = position + 1
    /\ UNCHANGED <<ScannerVars, PrattVars, columns, table, selection>>
    /\ LET t == SQLParser_peek
           arm == OrderLoopArm(t)
       IN  CASE arm = "push" ->
                   /\ order_columns' = Append(order_columns, t[1].v)
                   /\ UNCHANGED <<order_by, pc, outcome, err>>
             [] arm = "continue" -> UNCHANGED <<order_columns, order_by, pc, outcome, err>>
             [] arm = "break" ->
                   /\ order_by' = Some(order_columns)
                   /\ ReturnStatement
                   /\ UNCHANGED order_columns
             [] arm = "unexpected" ->
                   Fail("General: Unexpected token in ORDER BY")
                   /\ UNCHANGED <<order_columns, order_by>>
             [] arm = "end" ->
                   Fail("UnexpectedEnd") /\ UNCHANGED <<order_columns, order_by>>

(***************************************************************************)
(* main.rs: the tokenizing loop of one input line, then SQLParser::new.    *)
(***************************************************************************)
MainTokenize ==
    /\ pc = "tokenize"
    /\ UNCHANGED <<entry, input, position, columns, table, selection, order_by,
                   order_columns, PrattVars, err>>
    /\ LET r == next_token(input, tpos)
       IN  /\ tpos' = r.position
           /\ IF r.panicked
              THEN pc' = "done" /\ outcome' = "Panic" /\ UNCHANGED tokens
              ELSE /\ tokens' = Append(tokens, r.token)
                   /\ pc' = IF r.token = Eof THEN "parse_statement" ELSE "tokenize"
                   /\ UNCHANGED outcome

\* A caller of the tokenizer alone: one more call of next_token.
NextToken ==
    /\ pc = "next_token"
    /\ Len(tokens) < MaxCalls
    /\ UNCHANGED <<entry, input, position, columns, table, selection, order_by,
                   order_columns, PrattVars, err>>
    /\ LET r == next_token(input, tpos)
       IN  /\ tpos' = r.position
           /\ IF r.panicked
              THEN pc' = "done" /\ outcome' = "Panic" /\ UNCHANGED tokens
              ELSE tokens' = Append(tokens, r.token) /\ UNCHANGED <<pc, outcome>>


(***************************************************************************)
(* Inputs.                                                                 *)
(***************************************************************************)
RECURSIVE Join(_, _)
Join(ss, sep) ==
    IF ss = <<>> THEN <<>>
    ELSE IF Len(ss) = 1 THEN ss[1]
    ELSE ss[1] \o sep \o Join(Tail(ss), sep)

SeqsUpTo(S, n) == UNION {[1..m -> S] : m \in 0..n}

\* Lexemes the scanner inputs are concatenated from.
WordLexemes ==
    { <<"S","e","L","e","C","t">>,
      <<"b","y">>,
      <<"a">>,
      <<"T","a","b","1">>,
      <<"x","_","y">>,
      <<"o","r","d","e","r","s">>,
      <<LongS,"e","l","e","c","t">> }
NumberLexemes ==
    { <<"0">>,
      <<"0","0","7">>,
      <<"1","8","4","4","6","7","4","4","0","7","3","7","0","9","5","5","1","6","1","5">>,
      <<"1","8","4","4","6","7","4","4","0","7","3","7","0","9","5","5","1","6","1","6">>,
      <<"9","9","9","9","9","9","9","9","9","9","9","9","9","9","9","9","9","9","9","9">>,
      <<"1","0","0","0","0","0","0","0","0","0","0","0","0","0","0","0","0","0","0","0","0">>,
      <<"0","0","0","1","8","4","4","6","7","4","4","0","7","3","7","0","9","5","5","1","6","1","5">> }
SymbolLexemes ==
    { <<",">>,
      <<"=">>,
      <<">">>,
      <<"<">>,
      <<"!">>,
      <<"@">>,
      <<"_">>,
      <<"'","a"," ","b","'">>,
      <<"\"","x","\"">>,
      <<"'","x">>,
      <<" ">>,
      <<"\t">> }
Lexemes == WordLexemes \cup NumberLexemes \cup SymbolLexemes

\* Every keyword in four casings, alone or next to another character.
Casing(word, c) ==
    [i \in 1..Len(word) |->
        LET lower == LowerLetters[CHOOSE j \in 1..Len(UpperLetters) : UpperLetters[j] = word[i]]
        IN  CASE c = "upper" -> word[i]
              [] c = "lower" -> lower
              [] c = "capitalized" -> IF i = 1 THEN word[i] ELSE lower
              [] c = "alternating" -> IF i % 2 = 0 THEN word[i] ELSE lower]

KeywordInputs ==
    { pre \o Casing(KeywordTable[i][1], c) \o post :
        i \in 1..Len(KeywordTable),
        c \in {"upper", "lower", "capitalized", "alternating"},
        pre \in {<<>>, <<" ">>},
        post \in {<<>>, <<" ">>, <<"s">>, <<"_">>, <<"1">>, <<",">>} }

ScannerInputs ==
    KeywordInputs \cup
    { Join(ls, sep) : ls \in SeqsUpTo(Lexemes, MaxLexemes), sep \in {<<>>, <<" ">>} }

InitCommon ==
    /\ tpos = 0
    /\ position = 0
    /\ columns = <<>>
    /\ table = None
    /\ selection = None
    /\ order_by = None
    /\ order_columns = <<>>
    /\ ebase = 0
    /\ epos = 0
    /\ eleft = None
    /\ estack = <<>>
    /\ eret = None
    /\ outcome = "running"
    /\ err = ""

\* Tokenizer::new(input), driven by calls of next_token.
InitTok ==
    /\ entry = "next_token"
    /\ input \in ScannerInputs
    /\ tokens = <<>>
    /\ pc = "next_token"
    /\ emin = 1
    /\ InitCommon

SpecTok == InitTok /\ [][NextToken]_vars


(***************************************************************************)
(* Claims about the tokenizer (under SpecTok).                             *)
(***************************************************************************)

\* C3: a digit run whose value exceeds 2^64 - 1 reaches the caller as an error
\* value or token: no call of next_token aborts the process.
C3_OverflowReachesCallerAsError == outcome # "Panic"

\* C5: once a call has returned Eof every later call returns Eof, and the
\* tokenizer's position never exceeds the length of the input.
C5_EofStaysAndCursorInBounds ==
    /\ \A i \in 1..Len(tokens) : \A j \in i..Len(tokens) :
          tokens[i] = Eof => tokens[j] = Eof
    /\ tpos <= Len(input)

\* The nineteen keywords C9 lists, with the Keyword each stands for.
C9Keywords ==
    { <<<<"S","E","L","E","C","T">>, "Select">>,
      <<<<"F","R","O","M">>, "From">>,
      <<<<"W","H","E","R","E">>, "Where">>,
      <<<<"C","R","E","A","T","E">>, "Create">>,
      <<<<"T","A","B","L","E">>, "Table">>,
      <<<<"O","R","D","E","R">>, "Order">>,
      <<<<"B","Y">>, "By">>,
      <<<<"A","N","D">>, "And">>,
      <<<<"O","R">>, "Or">>,
      <<<<"N","O","T">>, "Not">>,
      <<<<"T","R","U","E">>, "True">>,
      <<<<"F","A","L","S","E">>, "False">>,
      <<<<"I","N","T">>, "Int">>,
      <<<<"B","O","O","L">>, "Bool">>,
      <<<<"V","A","R","C","H","A","R">>, "Varchar">>,
      <<<<"P","R","I","M","A","R","Y">>, "Primary">>,
      <<<<"K","E","Y">>, "Key">>,
      <<<<"C","H","E","C","K">>, "Check">>,
      <<<<"N","U","L","L">>, "Null">> }

\* Where the next token starts: the first non-whitespace position from p.
C9Start(inp, p) ==
    IF p >= Len(inp) THEN p
    ELSE CHOOSE s \in p..Len(inp) :
            /\ \A i \in (p + 1)..s : is_whitespace(inp[i])
            /\ s = Len(inp) \/ ~is_whitespace(inp[s + 1])

C9WordChar(ch) == is_alphabetic(ch) \/ is_digit(ch) \/ ch = "_"

\* The maximal word starting at s (its first character is alphabetic).
C9WordAt(inp, s) ==
    LET n == CHOOSE n \in 1..(Len(inp) - s) :
                 /\ \A i \in 2..n : C9WordChar(inp[s + i])
                 /\ s + n = Len(inp) \/ ~C9WordChar(inp[s + n + 1])
    IN  SubSeq(inp, s + 1, s + n)

C9Expected(word) ==
    LET up == [i \in 1..Len(word) |-> char_to_uppercase(word[i])]
    IN  IF \E kw \in C9Keywords : kw[1] = up
        THEN Keyword((CHOOSE kw \in C9Keywords : kw[1] = up)[2])
        ELSE Identifier(word)

\* C9: a call of next_token that meets a word returns Keyword(kw) when the
\* upper-cased maximal word is one of the nineteen keywords, and otherwise
\* Identifier with the word exactly as written.
C9_WordIsKeywordOrIdentifier ==
    [][ LET s == C9Start(input, tpos)
        IN  (s < Len(input) /\ is_alphabetic(input[s + 1])) =>
               /\ outcome' = "running"
               /\ tokens' = Append(tokens, C9Expected(C9WordAt(input, s)))
               /\ tpos' = s + Len(C9WordAt(input, s)) ]_vars

\* A mixed-case keyword and a mixed-case identifier have both been scanned.
C9_Witness ==
    /\ Len(tokens) >= 2
    /\ Len(input) >= 6
    /\ SubSeq(input, 1, 6) = <<"S","e","L","e","C","t">>
    /\ tokens[1] = Keyword("Select")
    /\ tokens[2] = Identifier(<<"T","a","b","1">>)


(***************************************************************************)
(* Expression slices handed to PrattParser::new, and parse_expression's    *)
(* min_precedence argument.                                                *)
(***************************************************************************)
BinaryOperatorTokens ==
    { Keyword("Or"), Keyword("And"), Sym("Equal"), Sym("NotEqual"),
      Sym("GreaterThan"), Sym("GreaterThanOrEqual"), Sym("LessThan"),
      Sym("LessThanOrEqual"), Sym("Plus"), Sym("Minus"), Sym("Multiply"),
      Sym("Divide") }

\* The i-th atomic operand of a chain: the four kinds of atom in turn.
Operand(i) ==
    CASE i % 4 = 1 -> Identifier(<<"a">>)
      [] i % 4 = 2 -> Number(<<"2">>)
      [] i % 4 = 3 -> StringTok(<<"s">>)
      [] OTHER -> Keyword("True")

\* operand (binop operand)*
Chain(ops) ==
    [i \in 1..(2 * Len(ops) + 1) |->
        IF i % 2 = 1 THEN Operand((i + 1) \div 2) ELSE ops[i \div 2]]

ChainInputs == { Chain(ops) : ops \in SeqsUpTo(BinaryOperatorTokens, MaxOps) }

UnaryTokens == { Keyword("Not"), Sym("Minus") }

UnaryInputs ==
    { <<u>> \o Chain(ops) : u \in UnaryTokens,
                            ops \in SeqsUpTo(BinaryOperatorTokens, MaxOps - 1) }

ExprAlphabet ==
    { Identifier(<<"a">>), Keyword("Not"), Sym("Minus"), Sym("Multiply"),
      Keyword("And"), Sym("LeftParentheses"), Sym("RightParentheses"), Eof }

ExprInputs == ChainInputs \cup UnaryInputs \cup SeqsUpTo(ExprAlphabet, MaxExprLen)

MinPrecedences == 0..7 \cup {U8Max}

\* PrattParser::new(tokens).parse_expression(min_precedence)
InitExpr ==
    /\ entry = "parse_expression"
    /\ input = <<>>
    /\ tokens \in ExprInputs
    /\ emin \in MinPrecedences
    /\ pc = "prefix"
    /\ InitCommon

NextExpr == PrattPrefix \/ PrattLoop \/ PrattReturn

SpecExpr == InitExpr /\ [][NextExpr]_vars

(***************************************************************************)
(* Token slices handed to SQLParser::new.                                  *)
(***************************************************************************)
SelectFromTable(cols) == <<Keyword("Select")>> \o cols \o <<Keyword("From"), Identifier(<<"t">>)>>

ColumnLists ==
    { <<>>,
      <<Identifier(<<"a">>)>>,
      <<Identifier(<<"a">>), Sym("Comma"), Identifier(<<"b">>)>> }

OrderLists ==
    { <<Identifier(<<"a">>)>>,
      <<Identifier(<<"b">>), Sym("Comma"), Identifier(<<"a">>)>> }

\* ORDER BY <ids> Eof
OrderByEndings ==
    { <<Keyword("Order"), Keyword("By")>> \o ids \o <<Eof>> : ids \in OrderLists }

AnyAlphabet ==
    ExprAlphabet \cup
    { Sym("Comma"), Keyword("Select"), Keyword("From"), Keyword("Where"), Keyword("Order"),
      Keyword("By"), Sym("Semicolon"), Invalid("!") }

ColumnAlphabet ==
    { Identifier(<<"a">>), Sym("Comma"), Keyword("From"), Keyword("Where"), Eof }

TailAlphabet ==
    { Keyword("Where"), Keyword("Order"), Keyword("By"), Identifier(<<"a">>),
      Sym("Comma"), Sym("Semicolon"), Invalid("@"), Eof }

\* Any short slice (the empty one and those without Eof included).
AnyInputs == SeqsUpTo(AnyAlphabet, MaxAnyLen)

\* SELECT followed by anything a column list may meet.
ColumnInputs == { <<Keyword("Select")>> \o s : s \in SeqsUpTo(ColumnAlphabet, MaxTail) }

\* SELECT <cols> FROM t followed by anything.
TailInputs ==
    { SelectFromTable(cols) \o tail :
        cols \in ColumnLists, tail \in SeqsUpTo(TailAlphabet, MaxTail) }

\* SELECT a FROM t WHERE <any expression slice> [ORDER BY <ids>] [Eof]
WhereInputs ==
    { SelectFromTable(<<Identifier(<<"a">>)>>) \o <<Keyword("Where")>> \o e \o rest :
        e \in ExprInputs, rest \in {<<>>, <<Eof>>} \cup OrderByEndings }

StatementInputs == AnyInputs \cup ColumnInputs \cup TailInputs \cup WhereInputs

\* SQLParser::new(tokens).parse_statement()
InitParse ==
    /\ entry = "parse_statement"
    /\ input = <<>>
    /\ tokens \in StatementInputs
    /\ emin = 1
    /\ pc = "parse_statement"
    /\ InitCommon

NextParse ==
    \/ ParseStatement
    \/ ParseSelect
    \/ ColumnLoop
    \/ TableName
    \/ WhereClause
    \/ OrderByClause
    \/ OrderByLoop
    \/ PrattPrefix
    \/ PrattLoop
    \/ PrattReturn

Next == NextParse

Spec == InitParse /\ [][Next]_vars

\* The parser is a sequential program: a step that can be taken is taken.
FairSpec == Spec /\ WF_vars(Next)

(***************************************************************************)
(* Input lines of main.rs: trimmed, not empty, not "exit".                 *)
(***************************************************************************)
LineHeads ==
    { <<"S","E","L","E","C","T"," ","a"," ","F","R","O","M"," ","t">>,
      <<"s","e","l","e","c","t"," ","a",","," ","b"," ","f","r","o","m"," ","t">>,
      <<"S","E","L","E","C","T"," ","*"," ","F","R","O","M"," ","t">> }
LinePhrases ==
    { <<"W","H","E","R","E"," ","a"," ","="," ","1">>,
      <<"W","H","E","R","E"," ","b"," ","="," ","'","x">>,
      <<"W","H","E","R","E"," ","N","O","T"," ","a">>,
      <<"O","R","D","E","R"," ","B","Y"," ","a">>,
      <<"O","R","D","E","R"," ","B","Y"," ","a",","," ","b",";">>,
      <<"!">>,
      <<"@">>,
      <<"'","x">>,
      <<";">>,
      <<"x">>,
      <<"L","I","M","I","T"," ","5">>,
      <<"A","N","D">>,
      <<"9","9","9","9","9","9","9","9","9","9","9","9","9","9","9","9","9","9","9","9">> }

MainInputs ==
    { Join(<<h>> \o ps, <<" ">>) : h \in LineHeads, ps \in SeqsUpTo(LinePhrases, MaxPhrases) }

InitMain ==
    /\ entry = "main"
    /\ input \in MainInputs
    /\ tokens = <<>>
    /\ emin = 1
    /\ pc = "tokenize"
    /\ InitCommon

NextMain == MainTokenize \/ NextParse

SpecMain == InitMain /\ [][NextMain]_vars

(***************************************************************************)
(* Claims about the expression parser (under SpecExpr).                    *)
(***************************************************************************)
ExprDone(min_precedence) ==
    /\ entry = "parse_expression"
    /\ pc = "done"
    /\ emin = min_precedence

\* The operand of a chain as the expression it parses to.
OperandExpr(i) ==
    CASE i % 4 = 1 -> Leaf("Identifier", <<"a">>)
      [] i % 4 = 2 -> Leaf("Number", <<"2">>)
      [] i % 4 = 3 -> Leaf("String", <<"s">>)
      [] OTHER -> Leaf("Boolean", <<"true">>)

\* The precedence table and the operators as C7 states them.
C7Level(tok) ==
    CASE tok = Keyword("Or") -> 1
      [] tok = Keyword("And") -> 2
      [] tok \in {Sym("Equal"), Sym("NotEqual")} -> 3
      [] tok \in {Sym("GreaterThan"), Sym("GreaterThanOrEqual"),
                  Sym("LessThan"), Sym("LessThanOrEqual")} -> 4
      [] tok \in {Sym("Plus"), Sym("Minus")} -> 5
      [] tok \in {Sym("Multiply"), Sym("Divide")} -> 6

C7Operator(tok) ==
    CASE tok = Keyword("Or") -> "Or"
      [] tok = Keyword("And") -> "And"
      [] tok = Sym("Equal") -> "Equals"
      [] tok = Sym("NotEqual") -> "NotEquals"
      [] tok = Sym("GreaterThan") -> "GreaterThan"
      [] tok = Sym("GreaterThanOrEqual") -> "GreaterThanOrEqual"
      [] tok = Sym("LessThan") -> "LessThan"
      [] tok = Sym("LessThanOrEqual") -> "LessThanOrEqual"
      [] tok = Sym("Plus") -> "Add"
      [] tok = Sym("Minus") -> "Subtract"
      [] tok = Sym("Multiply") -> "Multiply"
      [] tok = Sym("Divide") -> "Divide"

\* The tree the table defines for operands lo..hi of a chain: the root is the
\* last operator of the lowest level (every operator associates to the left).
RECURSIVE C7Tree(_, _, _)
C7Tree(chain, lo, hi) ==
    IF lo = hi THEN OperandExpr(lo)
    ELSE LET op(k) == chain[2 * k]
             lowest == CHOOSE k \in lo..(hi - 1) :
                          /\ \A j \in lo..(hi - 1) : C7Level(op(j)) >= C7Level(op(k))
                          /\ \A j \in (k + 1)..(hi - 1) : C7Level(op(j)) > C7Level(op(k))
         IN  BinaryOperation(C7Tree(chain, lo, lowest), C7Operator(op(lowest)),
                             C7Tree(chain, lowest + 1, hi))

\* a op1 b op2 c, as C7 spells it out.
C7TwoOperators(chain) ==
    LET a == OperandExpr(1)
        b == OperandExpr(2)
        c == OperandExpr(3)
        op1 == chain[2]
        op2 == chain[4]
    IN  IF C7Level(op2) > C7Level(op1)
        THEN BinaryOperation(a, C7Operator(op1), BinaryOperation(b, C7Operator(op2), c))
        ELSE BinaryOperation(BinaryOperation(a, C7Operator(op1), b), C7Operator(op2), c)

\* C7: parse_expression(1) on operand (binop operand)* consumes the whole chain
\* and returns the tree of the precedence table OR=1 .. * /=6, every operator
\* left-associative.
C7_PrecedenceAndLeftAssociativity ==
    (ExprDone(1) /\ tokens \in ChainInputs) =>
        /\ outcome = "Ok"
        /\ epos = Len(tokens)
        /\ eret = Some(C7Tree(tokens, 1, (Len(tokens) + 1) \div 2))
        /\ Len(tokens) = 5 => eret = Some(C7TwoOperators(tokens))

\* 10 - 3 - 2 and 1 + 2 * 3 in the model's operands: both trees have been returned.
C7_Witness ==
    /\ ExprDone(1)
    /\ outcome = "Ok"
    /\ Len(tokens) = 5
    /\ tokens \in ChainInputs
    /\ tokens[2] = Sym("Plus")
    /\ tokens[4] = Sym("Multiply")
    /\ eret[1].operator = "Add"
    /\ eret[1].right_operand.operator = "Multiply"

\* C6: NOT a op b and - a op b parse (at min_precedence 1) to
\* BinaryOperation(op, UnaryOperation(Not|Negate, a), b), for each of the
\* twelve binary operators.
C6_UnaryBindsTighterThanBinary ==
    (/\ ExprDone(1)
     /\ Len(tokens) = 4
     /\ tokens \in UnaryInputs) =>
        /\ outcome = "Ok"
        /\ eret = Some(BinaryOperation(
                     UnaryOperation(IF tokens[1] = Keyword("Not") THEN "Not" ELSE "Negate",
                                    OperandExpr(1)),
                     C7Operator(tokens[3]),
                     OperandExpr(2)))

\* C10: whatever min_precedence is, the operator loop consumes only the twelve
\* binary operators, and "Unknown binary operator" is never returned.
C10_UnknownOperatorNeverReturned ==
    /\ \A i \in 1..Len(estack) :
          estack[i].kont = "Right" => estack[i].op \in BinaryOperatorTokens
    /\ err # "Unknown binary operator"


(***************************************************************************)
(* Claims about the statement parser (under Spec, FairSpec and SpecMain).  *)
(***************************************************************************)
StatementReturned == entry \in {"parse_statement", "main"} /\ pc = "done"

\* The slice SELECT a FROM t WHERE <chain> ORDER BY <ids> [;] Eof: its chain.
C1Prefix == SelectFromTable(<<Identifier(<<"a">>)>>) \o <<Keyword("Where")>>
C1Expr == CHOOSE e \in ChainInputs : \E rest \in OrderByEndings : tokens = C1Prefix \o e \o rest
C1Ids ==
    LET rest == CHOOSE r \in OrderByEndings : \E e \in ChainInputs : tokens = C1Prefix \o e \o r
    IN  SelectSeq(rest, LAMBDA t : t.k = "Identifier")

\* C1: when the WHERE predicate has been parsed, the statement parser's cursor
\* is just past the last token the expression parser consumed; and SELECT a
\* FROM t WHERE <chain> ORDER BY <ids> Eof returns a Select with that
\* expression as selection and <ids> as order_by.
C1_CursorResynchronizedAfterWhere ==
    /\ (entry = "parse_statement" /\ pc = "order" /\ selection # None) =>
           position = ebase + epos
    /\ (StatementReturned /\ \E e \in ChainInputs : \E rest \in OrderByEndings :
                                 tokens = C1Prefix \o e \o rest) =>
           /\ outcome = "Ok"
           /\ selection = Some(C7Tree(C1Expr, 1, (Len(C1Expr) + 1) \div 2))
           /\ order_by = Some([i \in 1..Len(C1Ids) |-> C1Ids[i].v])

\* C2: a returned Select has at least one column.
C2_ColumnsNeverEmpty ==
    (StatementReturned /\ outcome = "Ok") => columns # <<>>

\* C8: a scanned line with an Invalid token anywhere is never parsed to Ok.
C8_InvalidTokenIsRejected ==
    (entry = "main" /\ \E i \in 1..Len(tokens) : tokens[i].k = "Invalid") =>
        outcome # "Ok"

\* Every read and slice in bounds, every precedence + 1 within u8.
C4InBounds ==
    /\ outcome # "Panic"
    /\ (pc = "where" /\ SQLParser_peek = Some(Keyword("Where"))) => position + 1 <= Len(tokens)
    /\ pc \in {"prefix", "loop", "return"} => ebase <= Len(tokens)
    /\ emin <= U8Max
    /\ (pc = "loop" /\ PrattParser_peek # None) => get_precedence(PrattParser_peek[1]) + 1 <= U8Max

\* C4: on every finite token slice parse_statement stays in bounds, and returns
\* Ok or Err.
C4_ParseStatementIsTotal ==
    /\ [](entry = "parse_statement" => C4InBounds)
    /\ <>(StatementReturned /\ outcome \in {"Ok", "Err"})

\* A WHERE predicate with a unary operator over a binary operation has been
\* parsed from a slice that has no Eof, and the statement returned.
C4_Witness ==
    /\ StatementReturned
    /\ outcome = "Ok"
    /\ tokens[Len(tokens)] # Eof
    /\ selection # None
    /\ selection[1].node = "UnaryOperation"
    /\ selection[1].operand.node = "BinaryOperation"

\* The tokens read by the statement parser or by the expression parser it ran.
C11Consumed ==
    IF selection # None /\ ebase + epos > position THEN ebase + epos ELSE position

\* The tokens after the last one read.
C11Leftover ==
    IF C11Consumed >= Len(tokens) THEN <<>>
    ELSE SubSeq(tokens, C11Consumed + 1, Len(tokens))

\* C11: when parse_statement returns Ok the whole line was recognised: nothing
\* is left after the last clause but an optional semicolon and the Eof.
C11_OkOnlyWhenWholeLineRecognised ==
    (StatementReturned /\ outcome = "Ok") =>
        C11Leftover \in {<<>>, <<Eof>>, <<Sym("Semicolon")>>, <<Sym("Semicolon"), Eof>>}

====
